---- MODULE Spec2Model ----
(***************************************************************************)
(* Model of the quiz session component (src/components/QuizPlayer.tsx).    *)
(* The component is a React function component: its state is the three     *)
(* useState cells (currentQuestionIndex, answers, timeLeft), the interval   *)
(* handle owned by the timer effect together with the closure that the     *)
(* interval callback captured, and the props it was given.  The two        *)
(* collaborators (onFinish, onProgressUpdate) are observed through what    *)
(* each step hands to them.                                                *)
(***************************************************************************)
EXTENDS Integers, Sequences, FiniteSets, TLC

(* ---------------------------------------------------------------- bounds *)
MaxFinish == 2          \* deliveries to onFinish that are followed
MaxResume == 7          \* largest resumed remaining time that is tried
MaxTotal == 51          \* largest number of questions in loaded data
MaxTyped == 52          \* largest number typed into a number input

(* ------------------------------------------------------ program constants *)
SecondsPerQuestion == 60
SnapshotPeriod == 5
LIMIT == 50

(* ------------------------------------------------------------- data model *)
NoAnswer == "none"      \* answers[q.id] === undefined
NoTimer == [active |-> FALSE]
NoConfig == [mounted |-> FALSE]   \* the configuration step is not on screen
Null == -1              \* initialTimeLeft = null (resumed times are >= 0)

Question(id, options, correctAnswer) ==
    [id |-> id, options |-> options, correctAnswer |-> correctAnswer]

QuizData(questions, timeLimit) ==
    [questions |-> questions, timeLimit |-> timeLimit]

(* The inputs that are tried: one quiz that relies on the one-minute-per-   *)
(* question fallback, one whose limit is not a multiple of five and one    *)
(* whose limit is.  timeLimit = 0 stands for an absent (falsy) limit.      *)
Quizzes ==
    { QuizData(<<Question(4, {"A"}, "A")>>, 0),
      QuizData(<<Question(2, {"A", "B"}, "B"),
                 Question(7, {"C"}, "C")>>, 12),
      QuizData(<<Question(1, {"A"}, "A"),
                 Question(2, {"B"}, "B"),
                 Question(3, {"C"}, "C")>>, 5) }

QuestionIds(d) == {d.questions[i].id : i \in 1..Len(d.questions)}

OptionKeys(d, qid) ==
    UNION {d.questions[i].options :
              i \in {j \in 1..Len(d.questions) : d.questions[j].id = qid}}

(* UserAnswers over the quiz's questions, every value one of the question's *)
(* option keys or absent.                                                  *)
AnswerMaps(d) ==
    {a \in [QuestionIds(d) -> {"A", "B", "C", "D", NoAnswer}] :
        \A q \in QuestionIds(d) : a[q] \in OptionKeys(d, q) \cup {NoAnswer}}

ResumeTimes == {0, MaxResume}

NoAnswers(d) == [q \in QuestionIds(d) |-> NoAnswer]

Props(d, ia, itl, cb) ==
    [data |-> d, initialAnswers |-> ia, initialTimeLeft |-> itl,
     onProgressUpdate |-> cb]

(* The sessions that are tried: every quiz with a time limit fresh (no     *)
(* prior answers, no resumed time), with and without a progress callback,  *)
(* and every quiz resumed from a saved snapshot (any answer map, any       *)
(* resume time), which presupposes the callback that saved it.             *)
Sessions ==
    UNION {{Props(d, NoAnswers(d), Null, cb) : cb \in {c \in BOOLEAN : d.timeLimit # 0}}
           \cup {Props(d, ia, itl, TRUE) :
                    ia \in AnswerMaps(d), itl \in ResumeTimes} : d \in Quizzes}

PressedKeys ==
    {"ArrowLeft", "ArrowRight", "Enter", "1", "a", "A", "2", "b", "B",
     "3", "c", "C", "4", "d", "D", "x"}

(* ------------------------------------------------------- pure computations *)
Max(a, b) == IF a >= b THEN a ELSE b
Min(a, b) == IF a <= b THEN a ELSE b

\* JavaScript remainder: the sign follows the dividend.
JsRem(a, b) == IF a >= 0 THEN a % b ELSE -((-a) % b)

AllocatedTime(d) ==
    IF d.timeLimit # 0 THEN d.timeLimit
                       ELSE Len(d.questions) * SecondsPerQuestion

InitialTimeLeft(itl, d) == IF itl # Null THEN itl ELSE AllocatedTime(d)

\* Object.keys(initialAnswers).length > 0
HasPriorAnswers(ia) == \E q \in DOMAIN ia : ia[q] # NoAnswer

\* data.questions.findIndex(q => !initialAnswers[q.id]), 0-based, -1 if none
RECURSIVE FindIndexFrom(_, _, _)
FindIndexFrom(qs, ia, i) ==
    IF i > Len(qs) THEN -1
    ELSE IF ia[qs[i].id] = NoAnswer THEN i - 1
    ELSE FindIndexFrom(qs, ia, i + 1)

\* a search that skips the first question
FirstUnanswered_SkipFirst(qs, ia) == FindIndexFrom(qs, ia, 2)

FirstUnanswered(qs, ia) == FindIndexFrom(qs, ia, 1)

\* the position the mount effect leaves, starting from useState(0)
StartIndex(d, ia) ==
    IF HasPriorAnswers(ia)
    THEN IF FirstUnanswered(d.questions, ia) # -1
         THEN FirstUnanswered(d.questions, ia)
         ELSE 0
    ELSE 0

TickNewVal(prev) == prev - 1

\* a cadence test on the value before the decrement
EmitsOnTick_OnPrev(newVal, hasCallback) ==
    JsRem(newVal + 1, SnapshotPeriod) = 0 /\ hasCallback

EmitsOnTick(newVal, hasCallback) ==
    JsRem(newVal, SnapshotPeriod) = 0 /\ hasCallback

TickExpired(newVal) == newVal <= 0

\* an updater that forgets to clamp at zero
TickResult_NoClamp(newVal) == newVal

TickResult(newVal) == IF TickExpired(newVal) THEN 0 ELSE newVal

TimeSpent(allocated, left) == Max(0, allocated - left)

PrevIndex(prev) == Max(0, prev - 1)

\* a "next" that forgets the upper clamp
NextIndex_NoClamp(prev, n) == prev + 1

NextIndex(prev, n) == Min(n - 1, prev + 1)

\* a selection that keeps an answer once one is recorded
SelectOption_KeepFirst(prev, questionId, optionKey) ==
    IF prev[questionId] # NoAnswer THEN prev
    ELSE [prev EXCEPT ![questionId] = optionKey]

SelectOption(prev, questionId, optionKey) ==
    [prev EXCEPT ![questionId] = optionKey]

\* a switch whose digit cases are off by one
KeyOption_DigitsShifted(key) ==
    CASE key \in {"a", "A"} -> "A"
      [] key \in {"1", "b", "B"} -> "B"
      [] key \in {"2", "c", "C"} -> "C"
      [] key \in {"3", "d", "D"} -> "D"
      [] OTHER -> NoAnswer

KeyOption(key) ==
    CASE key \in {"1", "a", "A"} -> "A"
      [] key \in {"2", "b", "B"} -> "B"
      [] key \in {"3", "c", "C"} -> "C"
      [] key \in {"4", "d", "D"} -> "D"
      [] OTHER -> NoAnswer

\* !!answers[q.id]
IsAnswered(a, q) == a[q.id] # NoAnswer

\* a comparison that accepts any recorded answer
IsCorrect_AnyAnswer(a, q) == a[q.id] # NoAnswer

\* answers[q.id] === q.correctAnswer
IsCorrect(a, q) == a[q.id] = q.correctAnswer

\* the question is shown as correct: answered, and the answer is the key
FlagCorrect(a, q) == IsAnswered(a, q) /\ IsCorrect(a, q)

\* the per-question flags, in display order
Flags(d, a) == [i \in 1..Len(d.questions) |-> FlagCorrect(a, d.questions[i])]

\* the number of correct answers among the first i questions
RECURSIVE ScoreUpTo(_, _, _)
ScoreUpTo(d, a, i) ==
    IF i = 0 THEN 0
    ELSE ScoreUpTo(d, a, i - 1) + (IF Flags(d, a)[i] THEN 1 ELSE 0)

Score(d, a) == ScoreUpTo(d, a, Len(d.questions))

Snapshot(a, t) == [answers |-> a, timeLeft |-> t]
Result(a, spent) == [answers |-> a, timeSpent |-> spent]

(* ------------------------------------------------------------------ state *)
VARIABLES
    data,                  \* prop: the quiz
    initialAnswers,        \* prop: resumed answers ({} when fresh)
    initialTimeLeft,       \* prop: resumed remaining time, or Null
    onProgressUpdate,      \* prop: TRUE iff a progress callback was given
    currentQuestionIndex,  \* useState, 0-based
    answers,               \* useState
    timeLeft,              \* useState
    timer,                 \* the interval handle and what its callback closed over
    phase,                 \* "rendered" (effects pending), "mounted", "unmounted"
    lastOp,                \* the handler that ran in the last step
    lastArg,               \* what it was called with (key, option or index), as text
    progressOut,           \* what the last step passed to onProgressUpdate
    finishOut,             \* what the last step passed to onFinish
    finishCount,           \* calls of onFinish so far
    tickCount,             \* interval callbacks run so far
    tickSnapshots,         \* snapshots emitted by interval callbacks so far
    elapsed,               \* TRUE iff part of the interval's current period has passed
    intervals,             \* intervals created by setInterval and not yet cleared
    config                 \* the configuration step (QuizConfig), see below

props == <<data, initialAnswers, initialTimeLeft, onProgressUpdate>>
vars == <<data, initialAnswers, initialTimeLeft, onProgressUpdate,
          currentQuestionIndex, answers, timeLeft, timer, phase, lastOp,
          lastArg, progressOut, finishOut, finishCount, tickCount, tickSnapshots,
          elapsed, intervals, config>>

allocatedTime == AllocatedTime(data)
questionCount == Len(data.questions)
currentQ == data.questions[currentQuestionIndex + 1]

\* setInterval: one more live interval
SetInterval(n) == n + 1

\* a cleanup that does not cancel the interval
ClearInterval_Forgotten(n, live) == n

\* clearInterval(timer): one live interval less, nothing if it was cleared before
ClearInterval(n, live) == IF live THEN n - 1 ELSE n

\* the timer effect run again: its cleanup, then its body
Rearmed(n, live) == SetInterval(ClearInterval(n, live))

\* an interval that keeps the closure of the first render
ArmedTimer_FirstClosure(a, t) ==
    [active |-> TRUE, answers |-> initialAnswers, timeLeft |-> t]

\* the closure of the render whose effects are being run
ArmedTimer(a, t) == [active |-> TRUE, answers |-> a, timeLeft |-> t]

\* handleSubmit of the render that saw (a, t)
HandleSubmit(a, t) == Result(a, TimeSpent(allocatedTime, t))

\* a save effect that reports the answer map of the previous render
SaveEffect_Stale(a, t) ==
    IF onProgressUpdate THEN <<Snapshot(answers, t)>> ELSE <<>>

\* the save effect of a render that saw (a, t)
SaveEffect(a, t) == IF onProgressUpdate THEN <<Snapshot(a, t)>> ELSE <<>>

(* First render: the useState initialisers have run, no effect has.        *)
PlayerInit(s) ==
    /\ data = s.data
    /\ initialAnswers = s.initialAnswers
    /\ initialTimeLeft = s.initialTimeLeft
    /\ onProgressUpdate = s.onProgressUpdate
    /\ currentQuestionIndex = 0
    /\ answers = initialAnswers
    /\ timeLeft = InitialTimeLeft(initialTimeLeft, data)
    /\ timer = NoTimer
    /\ phase = "rendered"
    /\ lastOp = "render"
    /\ lastArg = ""
    /\ progressOut = <<>>
    /\ finishOut = <<>>
    /\ finishCount = 0
    /\ tickCount = 0
    /\ tickSnapshots = 0
    /\ elapsed = FALSE
    /\ intervals = 0

Init ==
    /\ \E s \in Sessions : PlayerInit(s)
    /\ config = NoConfig

(* The effects of the first commit: starting position, timer, first save,  *)
(* key listener.                                                           *)
Mount ==
    /\ phase = "rendered"
    /\ phase' = "mounted"
    /\ currentQuestionIndex' = StartIndex(data, initialAnswers)
    /\ timer' = ArmedTimer(answers, timeLeft)
    /\ progressOut' = SaveEffect(answers, timeLeft)
    /\ finishOut' = <<>>
    /\ lastOp' = "mount"
    /\ lastArg' = ""
    /\ elapsed' = FALSE
    /\ intervals' = SetInterval(intervals)
    /\ UNCHANGED <<props, answers, timeLeft, finishCount, tickCount, tickSnapshots,
                   config>>

(* The interval callback: setTimeLeft's updater, run with the closure the  *)
(* interval was created in.                                                *)
Tick ==
    /\ phase = "mounted"
    /\ timer.active
    /\ elapsed
    /\ LET newVal == TickNewVal(timeLeft)
           emit == EmitsOnTick(newVal, onProgressUpdate)
           expired == TickExpired(newVal)
       IN /\ expired => finishCount < MaxFinish
          /\ progressOut' = IF emit THEN <<Snapshot(timer.answers, newVal)>> ELSE <<>>
          /\ tickSnapshots' = IF emit THEN tickSnapshots + 1 ELSE tickSnapshots
          /\ finishOut' = IF expired
                          THEN <<HandleSubmit(timer.answers, timer.timeLeft)>>
                          ELSE <<>>
          /\ finishCount' = IF expired THEN finishCount + 1 ELSE finishCount
          /\ timer' = IF expired THEN NoTimer ELSE timer
          /\ intervals' = IF expired THEN ClearInterval(intervals, timer.active)
                          ELSE intervals
          /\ timeLeft' = TickResult(newVal)
    /\ tickCount' = tickCount + 1
    /\ elapsed' = FALSE
    /\ lastOp' = "tick"
    /\ lastArg' = ""
    /\ UNCHANGED <<props, currentQuestionIndex, answers, phase, config>>

(* handleSelectOption followed by the re-render it causes: the answers     *)
(* object is new, so the timer effect is cleaned up and run again and the  *)
(* save effect runs.                                                       *)
SelectAnswer(questionId, optionKey, arg) ==
    /\ answers' = SelectOption(answers, questionId, optionKey)
    /\ timer' = ArmedTimer(answers', timeLeft)
    /\ progressOut' = SaveEffect(answers', timeLeft)
    /\ finishOut' = <<>>
    /\ lastOp' = "select"
    /\ lastArg' = arg
    /\ elapsed' = FALSE
    /\ intervals' = Rearmed(intervals, timer.active)
    /\ UNCHANGED <<props, currentQuestionIndex, timeLeft, phase, finishCount,
                   tickCount, tickSnapshots, config>>

SetIndex(index, op, arg) ==
    /\ currentQuestionIndex' = index
    /\ progressOut' = <<>>
    /\ finishOut' = <<>>
    /\ lastOp' = op
    /\ lastArg' = arg
    /\ UNCHANGED <<props, answers, timeLeft, timer, phase, finishCount,
                   tickCount, tickSnapshots, elapsed, intervals, config>>

Ignored(arg) ==
    /\ progressOut' = <<>>
    /\ finishOut' = <<>>
    /\ lastOp' = "ignored"
    /\ lastArg' = arg
    /\ UNCHANGED <<props, currentQuestionIndex, answers, timeLeft, timer, phase,
                   finishCount, tickCount, tickSnapshots, elapsed, intervals,
                   config>>

\* onChange of an option's radio input
ClickOption ==
    /\ phase = "mounted"
    /\ \E k \in currentQ.options : SelectAnswer(currentQ.id, k, k)

\* the window keydown listener
KeyDown ==
    /\ phase = "mounted"
    /\ \E onInput \in BOOLEAN :
          IF onInput THEN Ignored("")
          ELSE \E key \in PressedKeys :
               CASE key = "ArrowLeft" ->
                      SetIndex(PrevIndex(currentQuestionIndex), "prev", key)
                 [] key \in {"ArrowRight", "Enter"} ->
                      SetIndex(NextIndex(currentQuestionIndex, questionCount), "next", key)
                 [] KeyOption(key) # NoAnswer ->
                      IF KeyOption(key) \in currentQ.options
                      THEN SelectAnswer(currentQ.id, KeyOption(key), key)
                      ELSE Ignored(key)
                 [] OTHER -> Ignored(key)

\* onClick of a sidebar question button
ClickQuestion ==
    /\ phase = "mounted"
    /\ \E idx \in 0..(questionCount - 1) : SetIndex(idx, "jump", ToString(idx))

\* onClick of the footer "previous" button (disabled at the first question)
ClickPrev ==
    /\ phase = "mounted"
    /\ currentQuestionIndex # 0
    /\ SetIndex(PrevIndex(currentQuestionIndex), "prev", "")

\* onClick of the footer "next" button (disabled at the last question)
ClickNext ==
    /\ phase = "mounted"
    /\ currentQuestionIndex # questionCount - 1
    /\ SetIndex(NextIndex(currentQuestionIndex, questionCount), "next", "")

\* onClick of either submit button: handleSubmit of the current render
ClickSubmit ==
    /\ phase = "mounted"
    /\ finishCount < MaxFinish
    /\ finishOut' = <<HandleSubmit(answers, timeLeft)>>
    /\ finishCount' = finishCount + 1
    /\ progressOut' = <<>>
    /\ lastOp' = "submit"
    /\ lastArg' = ""
    /\ UNCHANGED <<props, currentQuestionIndex, answers, timeLeft, timer, phase,
                   tickCount, tickSnapshots, elapsed, intervals, config>>

(* The parent re-renders with a new onProgressUpdate function: the timer   *)
(* effect's dependency changed, so it is cleaned up and run again.         *)
ProgressCallbackChange ==
    /\ phase = "mounted"
    /\ onProgressUpdate
    /\ timer' = ArmedTimer(answers, timeLeft)
    /\ progressOut' = <<>>
    /\ finishOut' = <<>>
    /\ lastOp' = "rearm"
    /\ lastArg' = ""
    /\ elapsed' = FALSE
    /\ intervals' = Rearmed(intervals, timer.active)
    /\ UNCHANGED <<props, currentQuestionIndex, answers, timeLeft, phase,
                   finishCount, tickCount, tickSnapshots, config>>

(* The parent removes the component: every effect's cleanup runs.          *)
Unmount ==
    /\ phase = "mounted"
    /\ phase' = "unmounted"
    /\ timer' = NoTimer
    /\ progressOut' = <<>>
    /\ finishOut' = <<>>
    /\ lastOp' = "unmount"
    /\ lastArg' = ""
    /\ elapsed' = FALSE
    /\ intervals' = ClearInterval(intervals, timer.active)
    /\ UNCHANGED <<props, currentQuestionIndex, answers, timeLeft, finishCount,
                   tickCount, tickSnapshots, config>>

(* Time passes: part of the running interval's one-second period goes by.  *)
(* The rest of the period is the Tick step; a re-created interval starts   *)
(* its period afresh.                                                      *)
Elapse ==
    /\ phase = "mounted"
    /\ timer.active
    /\ ~elapsed
    /\ elapsed' = TRUE
    /\ progressOut' = <<>>
    /\ finishOut' = <<>>
    /\ lastOp' = "elapse"
    /\ lastArg' = ""
    /\ UNCHANGED <<props, currentQuestionIndex, answers, timeLeft, timer, phase,
                   finishCount, tickCount, tickSnapshots, intervals, config>>

Next ==
    \/ Mount
    \/ Elapse
    \/ Tick
    \/ ClickOption
    \/ KeyDown
    \/ ClickQuestion
    \/ ClickPrev
    \/ ClickNext
    \/ ClickSubmit
    \/ ProgressCallbackChange
    \/ Unmount

Spec == Init /\ [][Next]_vars

TypeOK ==
    /\ data \in Quizzes
    /\ answers \in AnswerMaps(data)
    /\ timeLeft \in Int
    /\ currentQuestionIndex \in Int
    /\ phase \in {"rendered", "mounted", "unmounted"}
    /\ finishCount \in 0..MaxFinish
    /\ Len(progressOut) <= 1
    /\ Len(finishOut) <= 1

(* The timer as the browser runs it: the effects of the first commit run,  *)
(* time passes, and a callback that is due is called.  One fresh session   *)
(* of the five-second quiz.                                                *)
LiveInit ==
    /\ Init
    /\ data.timeLimit = 5
    /\ initialTimeLeft = Null
    /\ onProgressUpdate

LiveSpec ==
    /\ LiveInit
    /\ [][Next]_vars
    /\ WF_vars(Mount)
    /\ WF_vars(Elapse)
    /\ WF_vars(Tick)

(* ------------------------------------------------- the configuration step *)
(* QuizConfig (src/services/geminiService.ts, lines 115-296).  config is   *)
(* its props and state: total = data.questions.length, the three useState  *)
(* cells, and what the last step passed to onStart.                        *)
playerVars ==
    <<data, initialAnswers, initialTimeLeft, onProgressUpdate,
      currentQuestionIndex, answers, timeLeft, timer, phase, lastOp, lastArg,
      progressOut, finishOut, finishCount, tickCount, tickSnapshots, elapsed,
      intervals>>

\* the data lengths that are tried
Totals == {0, 1, 3, LIMIT, MaxTotal}

\* parseInt of what was typed: <<>> is NaN, <<n>> the number n
Typed == {<<>>} \cup {<<n>> : n \in {-1, 0, 1, 2, MaxTyped}}

\* parseInt(e.target.value) || 1
OrOne(parsed) == IF parsed = <<>> \/ parsed[1] = 0 THEN 1 ELSE parsed[1]

MaxAllowed(total) == Min(total, LIMIT)

\* a number input whose value is not held below the maximum
ClampCount_NoUpper(parsed, maxAllowed) == Max(1, OrOne(parsed))

\* Math.min(Math.max(1, parseInt(e.target.value) || 1), maxAllowed)
ClampCount(parsed, maxAllowed) == Min(Max(1, OrOne(parsed)), maxAllowed)

\* Math.max(1, parseInt(e.target.value) || 1)
ClampTime(parsed) == Max(1, OrOne(parsed))

ConfigState(total, count, minutes, random, started) ==
    [mounted |-> TRUE, total |-> total, questionCount |-> count,
     timeLimit |-> minutes, isRandom |-> random, started |-> started]

\* the useState initialisers, and the [data] effect after the first commit
ConfigMounted(total) ==
    ConfigState(total, MaxAllowed(total), MaxAllowed(total), FALSE, <<>>)

\* the idle player next to the configuration step
IdleSession ==
    Props(CHOOSE d \in Quizzes : d.timeLimit = 5,
          NoAnswers(CHOOSE d \in Quizzes : d.timeLimit = 5), Null, FALSE)

ConfigInit ==
    /\ PlayerInit(IdleSession)
    /\ \E total \in Totals : config = ConfigMounted(total)

\* handleQuestionCountChange
HandleQuestionCountChange(val) ==
    /\ config' = [config EXCEPT !.questionCount = val, !.timeLimit = val,
                                !.started = <<>>]
    /\ UNCHANGED playerVars

\* the range input (min 1, max maxAllowed, disabled when maxAllowed is 0)
RangeChange ==
    /\ config.mounted
    /\ MaxAllowed(config.total) # 0
    /\ \E v \in 1..MaxAllowed(config.total) : HandleQuestionCountChange(v)

\* the number input for the question count (disabled when maxAllowed is 0)
CountChange ==
    /\ config.mounted
    /\ MaxAllowed(config.total) # 0
    /\ \E parsed \in Typed :
          HandleQuestionCountChange(ClampCount(parsed, MaxAllowed(config.total)))

\* the number input for the time limit
TimeLimitChange ==
    /\ config.mounted
    /\ \E parsed \in Typed :
          config' = [config EXCEPT !.timeLimit = ClampTime(parsed), !.started = <<>>]
    /\ UNCHANGED playerVars

\* the two mode buttons
ModeChange ==
    /\ config.mounted
    /\ \E random \in BOOLEAN :
          config' = [config EXCEPT !.isRandom = random, !.started = <<>>]
    /\ UNCHANGED playerVars

\* a batch was loaded: data changed, and the [data] effect ran
LoadBatch ==
    /\ config.mounted
    /\ \E total \in Totals :
          config' = [config EXCEPT !.total = total,
                                   !.questionCount = MaxAllowed(total),
                                   !.timeLimit = MaxAllowed(total),
                                   !.started = <<>>]
    /\ UNCHANGED playerVars

\* handleStart (the button is disabled when maxAllowed is 0)
Start ==
    /\ config.mounted
    /\ MaxAllowed(config.total) # 0
    /\ config' = [config EXCEPT !.started =
                     <<[questionCount |-> config.questionCount,
                        isRandom |-> config.isRandom,
                        timeLimit |-> config.timeLimit * SecondsPerQuestion]>>]
    /\ UNCHANGED playerVars

ConfigNext ==
    \/ RangeChange
    \/ CountChange
    \/ TimeLimitChange
    \/ ModeChange
    \/ LoadBatch
    \/ Start

ConfigSpec == ConfigInit /\ [][ConfigNext]_vars

(* ================================================================ claims *)
IsTick == lastOp' = "tick"
Delivered == finishOut' # <<>>
Emitted == progressOut' # <<>>

(* C1: in one session onFinish is called at most once, whatever the        *)
(* interleaving of submit clicks and timer expiry.                          *)
C1_DeliveredAtMostOnce == finishCount <= 1

(* C2: every submission, manual or forced by expiry, passes                *)
(* max(0, allocatedTime - remaining time at that moment) to onFinish.      *)
C2_ElapsedIsAllocatedMinusRemaining ==
    [][Delivered =>
         finishOut'[1].timeSpent =
            (IF allocatedTime - timeLeft' > 0 THEN allocatedTime - timeLeft' ELSE 0)]_vars

(* C3: in a fresh session with allocated time T the remaining time reaches *)
(* 0, and expiry submits, at the T-th tick and not before; a tick that     *)
(* finds the remaining time at 0 changes nothing and submits nothing.      *)
C3_ExpiryAtTthTickAndNoneAfter ==
    [][(IsTick /\ initialTimeLeft = Null) =>
         /\ (timeLeft > 0) =>
               /\ (timeLeft' = 0) <=> (tickCount' = allocatedTime)
               /\ Delivered <=> (tickCount' = allocatedTime)
         /\ (timeLeft = 0) =>
               /\ ~Delivered
               /\ finishCount' = finishCount
               /\ <<timeLeft, answers, currentQuestionIndex>>' =
                     <<timeLeft, answers, currentQuestionIndex>>]_vars

(* C4: once the session has ended (a submission was delivered, by click or *)
(* by expiry, or the component was torn down) no timer handle is active.   *)
C4_TimerReleasedOnEveryExit ==
    (finishCount > 0 \/ phase = "unmounted") => ~timer.active

(* C5: the remaining time is never negative and no step increases it.      *)
C5_RemainingTimeNeverIncreases ==
    [][timeLeft >= 0 /\ timeLeft' >= 0 /\ timeLeft' <= timeLeft]_vars

\* a session resumed with no time left has ticked
C5_Witness ==
    lastOp = "tick" /\ initialTimeLeft = 0 /\ timeLeft = 0 /\ tickCount = 1

(* C6: with a progress callback, a tick emits a snapshot iff the remaining *)
(* time it leaves is a multiple of five; the snapshot carries that value   *)
(* and the current answers; expiry always emits the snapshot for 0.        *)
C6_TickEmitsIffResultMultipleOfFive ==
    [][(IsTick /\ onProgressUpdate) =>
         /\ Emitted <=> (timeLeft' % 5 = 0)
         /\ Emitted => progressOut' = <<Snapshot(answers, timeLeft')>>
         /\ Delivered => progressOut' = <<Snapshot(answers, 0)>>]_vars

(* C7 as stated: a fresh session run to expiry has emitted                  *)
(* floor(allocatedTime / 5) + 1 snapshots from its ticks.                   *)
C7_SnapshotCountAsStated ==
    (initialTimeLeft = Null /\ onProgressUpdate /\ timeLeft = 0) =>
        tickSnapshots = (allocatedTime \div 5) + 1

(* C7 amended: a fresh session run to expiry has emitted                    *)
(* floor((allocatedTime - 1) / 5) + 1 snapshots from its ticks, which is   *)
(* floor(allocatedTime / 5) + 1 only when allocatedTime is not a multiple  *)
(* of five.                                                                *)
C7_SnapshotCount ==
    (initialTimeLeft = Null /\ onProgressUpdate /\ timeLeft = 0) =>
        /\ tickSnapshots = ((allocatedTime - 1) \div 5) + 1
        /\ (allocatedTime % 5 # 0) => tickSnapshots = (allocatedTime \div 5) + 1
        /\ (allocatedTime % 5 = 0) => tickSnapshots = allocatedTime \div 5

\* the 12-second run has expired after its snapshots at 10, 5 and 0
C7_Witness ==
    /\ initialTimeLeft = Null /\ onProgressUpdate /\ timeLeft = 0
    /\ allocatedTime = 12 /\ tickSnapshots = 3 /\ lastOp = "tick"

AnswerChangeEmits ==
    (lastOp' = "select" /\ onProgressUpdate) =>
        progressOut' = <<Snapshot(answers', timeLeft')>>

(* C8 as stated: every answer change emits the snapshot (new answers,      *)
(* current remaining time), and snapshots are emitted only by answer       *)
(* changes and by ticks that land on a multiple of five.                   *)
C8_SnapshotsAsStated ==
    [][/\ AnswerChangeEmits
       /\ Emitted => lastOp' \in {"select", "tick"}
       /\ (Emitted /\ IsTick) => (timeLeft - 1) % 5 = 0]_vars

(* C8 amended: as stated, except that the mount of the session also emits  *)
(* one snapshot, carrying the initial answers and remaining time.          *)
C8_Snapshots ==
    [][/\ AnswerChangeEmits
       /\ Emitted => lastOp' \in {"select", "tick", "mount"}
       /\ (Emitted /\ IsTick) => (timeLeft - 1) % 5 = 0
       /\ (Emitted /\ lastOp' = "mount") =>
             progressOut' = <<Snapshot(initialAnswers,
                                       IF initialTimeLeft = Null THEN allocatedTime
                                       ELSE initialTimeLeft)>>]_vars

\* an answer was changed after some ticks and its snapshot went out
C8_Witness ==
    /\ lastOp = "select" /\ tickCount > 0
    /\ progressOut = <<Snapshot(answers, timeLeft)>>
    /\ answers # initialAnswers

Unanswered(i) == initialAnswers[data.questions[i + 1].id] = NoAnswer

\* the starting position the claim describes, 0-based
C9_ExpectedPosition ==
    IF initialAnswers = NoAnswers(data) THEN 0
    ELSE IF \A i \in 0..(questionCount - 1) : ~Unanswered(i) THEN 0
    ELSE CHOOSE i \in 0..(questionCount - 1) :
            Unanswered(i) /\ \A j \in 0..(i - 1) : ~Unanswered(j)

(* C9: a session resumed with prior answers starts at the first question   *)
(* without an answer, or at 0 if all have one; without prior answers it    *)
(* starts at 0.                                                            *)
C9_InitialPosition ==
    [][lastOp' = "mount" => currentQuestionIndex' = C9_ExpectedPosition]_vars

\* resumed with the first two of three questions answered
C9_Witness ==
    /\ lastOp = "mount" /\ questionCount = 3 /\ currentQuestionIndex = 2
    /\ initialAnswers # NoAnswers(data)

(* C10: the position stays within 0..n-1; a click on index i sets it to i; *)
(* "previous" at 0 and "next" at n-1 leave it where it is.                 *)
C10_PositionInRange ==
    [][/\ currentQuestionIndex \in 0..(questionCount - 1)
       /\ currentQuestionIndex' \in 0..(questionCount - 1)
       /\ lastOp' = "jump" => ToString(currentQuestionIndex') = lastArg'
       /\ (lastOp' = "prev" /\ currentQuestionIndex = 0) => currentQuestionIndex' = 0
       /\ (lastOp' = "next" /\ currentQuestionIndex = questionCount - 1) =>
             currentQuestionIndex' = questionCount - 1]_vars

\* Enter was pressed on the only question of a quiz
C10_Witness ==
    /\ lastOp = "next" /\ lastArg = "Enter"
    /\ questionCount = 1 /\ currentQuestionIndex = 0

IsSelect == lastOp' = "select"

\* the option key a selection step was asked for: the radio input's own key,
\* or the letter the pressed key stands for
SelectedKey ==
    CASE lastArg' \in {"A", "1", "a"} -> "A"
      [] lastArg' \in {"B", "2", "b"} -> "B"
      [] lastArg' \in {"C", "3", "c"} -> "C"
      [] lastArg' \in {"D", "4", "d"} -> "D"

OthersKept ==
    \A q \in QuestionIds(data) : q # currentQ.id => answers'[q] = answers[q]

(* C11: the answer recorded for a question is the key of the last          *)
(* selection made for it: a selection writes its key over whatever was     *)
(* recorded, no other step (tick, navigation, submission) writes an        *)
(* answer, and a submission delivers the map so recorded.                  *)
C11_LastSelectionWins ==
    [][/\ IsSelect => answers'[currentQ.id] = SelectedKey
       /\ IsSelect => OthersKept
       /\ ~IsSelect => answers' = answers
       /\ Delivered => finishOut'[1].answers = answers']_vars

\* a resumed answer A was replaced by B after the timer had ticked
C11_Witness ==
    /\ lastOp = "select" /\ tickCount > 0 /\ questionCount = 2
    /\ initialAnswers[data.questions[1].id] = "A"
    /\ answers[data.questions[1].id] = "B"

(* C12: selecting an answer changes only the entry of the current question *)
(* (no entry is removed); the position, the remaining time and the running *)
(* tick of the timer (whether an interval runs, and how much of its period *)
(* has passed) are as before.                                              *)
C12_SelectionTouchesOnlyItsEntry ==
    [][IsSelect =>
         /\ OthersKept
         /\ answers'[currentQ.id] # NoAnswer
         /\ currentQuestionIndex' = currentQuestionIndex
         /\ timeLeft' = timeLeft
         /\ timer'.active = timer.active
         /\ elapsed' = elapsed]_vars

(* C13: reselecting the key already recorded for a question leaves the     *)
(* session as it was: same answers, position, remaining time and timer   *)
(* (the same interval, as far into its period as before).                  *)
C13_ReselectionIsIdempotent ==
    [][(IsSelect /\ answers[currentQ.id] = SelectedKey) =>
         /\ answers' = answers
         /\ currentQuestionIndex' = currentQuestionIndex
         /\ timeLeft' = timeLeft
         /\ timer' = timer
         /\ elapsed' = elapsed]_vars

IsAnswerKey(arg) ==
    arg \in {"1", "a", "A", "2", "b", "B", "3", "c", "C", "4", "d", "D"}

(* C14: a press of 1/a/A, 2/b/B, 3/c/C or 4/d/D records A, B, C or D for   *)
(* the current question, and for no other, iff that question has that     *)
(* option; otherwise the press changes nothing (answers, position, timer)  *)
(* and delivers nothing; every recorded answer is an option of its         *)
(* question.                                                               *)
C14_KeyRecordsOnlyExistingOption ==
    [][/\ IsSelect =>
            /\ SelectedKey \in currentQ.options
            /\ answers'[currentQ.id] = SelectedKey
            /\ OthersKept
            /\ answers'[currentQ.id] \in currentQ.options
       /\ lastOp' = "ignored" =>
            /\ IsAnswerKey(lastArg') => SelectedKey \notin currentQ.options
            /\ <<answers, currentQuestionIndex, timeLeft, timer, elapsed>>' =
                  <<answers, currentQuestionIndex, timeLeft, timer, elapsed>>
            /\ ~Delivered /\ ~Emitted
       /\ \A i \in 1..questionCount :
             answers'[data.questions[i].id] \in
                data.questions[i].options \cup {NoAnswer}]_vars

\* "b" was pressed on a question without option B, after "1" had recorded A
C14_Witness ==
    /\ lastOp = "ignored" /\ lastArg = "b"
    /\ "B" \notin currentQ.options
    /\ answers[currentQ.id] = "A" /\ initialAnswers[currentQ.id] = NoAnswer

CorrectCount(d, a) ==
    Cardinality({i \in 1..Len(d.questions) :
                    a[d.questions[i].id] = d.questions[i].correctAnswer})

\* three questions with the keys A, B, C; the second answered X, the third not
C15_ExampleQuiz ==
    [questions |-> <<Question(1, {"A"}, "A"), Question(2, {"B"}, "B"),
                     Question(3, {"C"}, "C")>>,
     timeLimit |-> 5]

C15_ExampleAnswers == (1 :> "A") @@ (2 :> "X") @@ (3 :> NoAnswer)

(* C15: a question is flagged correct iff an answer is recorded for it and *)
(* equals its correctAnswer; unanswered and mismatched questions are       *)
(* flagged incorrect; the score is the number of correct flags; the keys   *)
(* A, B, C with the answers {1: A, 2: X} score 1 of 3 with the flags       *)
(* [true, false, false].                                                   *)
C15_ScoreCountsExactMatches ==
    /\ \A i \in 1..questionCount :
          LET q == data.questions[i]
          IN /\ Flags(data, answers)[i] <=>
                   (answers[q.id] # NoAnswer /\ answers[q.id] = q.correctAnswer)
             /\ answers[q.id] = NoAnswer => ~Flags(data, answers)[i]
             /\ answers[q.id] # q.correctAnswer => ~Flags(data, answers)[i]
    /\ Score(data, answers) = CorrectCount(data, answers)
    /\ Flags(C15_ExampleQuiz, C15_ExampleAnswers) = <<TRUE, FALSE, FALSE>>
    /\ Score(C15_ExampleQuiz, C15_ExampleAnswers) = 1
    /\ Len(C15_ExampleQuiz.questions) = 3

\* two questions: the first answered with a wrong key, the second rightly
C15_Witness ==
    /\ questionCount = 2 /\ phase = "mounted"
    /\ answers[data.questions[1].id] = "A"
    /\ data.questions[1].correctAnswer = "B"
    /\ answers[data.questions[2].id] = data.questions[2].correctAnswer
    /\ Score(data, answers) = 1

(* C16: a session that is not submitted by hand reaches expiry: the timer  *)
(* brings the remaining time to 0 and submits, whatever answers are        *)
(* selected and whatever navigation happens meanwhile (a parent that      *)
(* keeps handing over a new progress callback for ever is left aside).     *)
C16_ExpiryIsReached ==
    \/ <>(timeLeft = 0 \/ finishCount > 0 \/ phase = "unmounted")
    \/ []<>(lastOp = "rearm")

(* C17: the answer map passed to onFinish, by a click or by expiry, is the *)
(* answer map of the session at that moment, with every selection made so  *)
(* far.                                                                    *)
C17_DeliveredAnswersAreCurrent ==
    [][Delivered =>
         /\ finishOut'[1].answers = answers
         /\ finishOut'[1].answers = answers']_vars

\* expiry delivered answers that were selected during the session
C17_Witness ==
    /\ lastOp = "tick" /\ finishOut # <<>>
    /\ finishOut[1].answers = answers
    /\ answers # initialAnswers
    /\ initialTimeLeft = Null

(* C18: at most one interval is live at any time, and it is live exactly   *)
(* when the timer handle is active; a tick comes only after a period of    *)
(* that interval has passed and takes exactly one second off the remaining *)
(* time (nothing when none is left).                                       *)
C18_OneIntervalOneSecond ==
    [][/\ intervals \in {0, 1}
       /\ intervals' \in {0, 1}
       /\ intervals' = (IF timer'.active THEN 1 ELSE 0)
       /\ IsTick =>
            /\ elapsed
            /\ timeLeft' = (IF timeLeft > 0 THEN timeLeft - 1 ELSE 0)]_vars

\* the timer was re-created by an answer change and by a new callback,
\* and has ticked since
C18_Witness ==
    /\ lastOp = "tick" /\ tickCount >= 2 /\ intervals = 1
    /\ answers # initialAnswers
    /\ timeLeft = InitialTimeLeft(initialTimeLeft, data) - tickCount

(* C19: whatever was edited and loaded before, a quiz is started with      *)
(* 1 <= questionCount <= min(number of loaded questions, 50), and is not   *)
(* started when no question is loaded.                                     *)
C19_StartedCountInRange ==
    config.started # <<>> =>
        /\ config.total # 0
        /\ config.started[1].questionCount >= 1
        /\ config.started[1].questionCount <= config.total
        /\ config.started[1].questionCount <= 50

\* more than fifty questions are loaded and fifty are started, with a
\* time limit typed by hand
C19_Witness ==
    /\ config.started # <<>>
    /\ config.total > 50
    /\ config.started[1].questionCount = 50
    /\ config.started[1].timeLimit = 2 * 60
====
